---------------------------- MODULE Spec2Model ----------------------------
(***************************************************************************)
(* A model of the InequalityToEquality converter                           *)
(* (src/src/sbo/src/_converters/inequality_to_equality.py).                *)
(*                                                                         *)
(* Numbers.  Python ints and floats are modelled as exact fixed-point      *)
(* numbers: the integer v stands for the real number v / Scale.  A number  *)
(* is "integral" (float.is_integer) when v is a multiple of Scale.         *)
(* Variable bounds of the source models are whole numbers, so that every   *)
(* product coefficient * bound is again a multiple of 1 / Scale.           *)
(*                                                                         *)
(* The problem container (QuadraticProgram, Variable, LinearExpression,    *)
(* QuadraticExpression) is not part of the source files; the operators    *)
(* that stand for it are marked "collaborator" below.                      *)
(***************************************************************************)
EXTENDS Integers, Sequences, FiniteSets, TLC

VARIABLES
    _mode,      \* self._mode
    _src,       \* self._src  (NoneQP before the first convert)
    _dst,       \* self._dst  (NoneQP before the first convert)
    problem,    \* the model the caller passed to the most recent convert
    ret,        \* outcome of the most recent call: [op, status, value]
    everOk,     \* history: some convert call on this instance has returned
    lastOk      \* history: the most recent convert call has returned

vars == <<_mode, _src, _dst, problem, ret, everOk, lastOk>>

---------------------------------------------------------------------------
(* Bounds of the model *)

\* resolution of the fixed-point numbers: v stands for v / Scale
Scale == 2
\* largest upper bound of a source variable (a whole number)
MaxBound == 2
\* right-hand sides range over -1 .. MaxRhs / Scale in steps of 1 / Scale
MaxRhs == 4
\* interpret is given the vectors x[i] = b + i for b in 0 .. MaxBase
MaxBase == 1

---------------------------------------------------------------------------
(* Numbers *)

Whole(k) == k * Scale
\* float.is_integer
IsInteger(v) == v % Scale = 0
\* math.floor, math.ceil
Floor(v) == (v \div Scale) * Scale
Ceil(v) == -Floor(-v)
\* product of two numbers; exact whenever one of them is whole
Mul(a, b) == (a * b) \div Scale
Min(S) == CHOOSE m \in S : \A k \in S : m <= k
Max(S) == CHOOSE m \in S : \A k \in S : m >= k

RECURSIVE SumFn(_, _)
SumFn(f, S) ==
    IF S = {} THEN 0
    ELSE LET k == CHOOSE k \in S : TRUE IN f[k] + SumFn(f, S \ {k})

Range(s) == {s[i] : i \in DOMAIN s}

---------------------------------------------------------------------------
(* The problem container (collaborator) *)

NoneQP == [none |-> TRUE]
IsNone(qp) == "none" \in DOMAIN qp

EmptyDict == <<>>

DefaultObjective ==
    [sense |-> "minimize", constant |-> 0, linear |-> EmptyDict, quadratic |-> EmptyDict]

\* QuadraticProgram(name=...)
QuadraticProgram(name) ==
    [name |-> name, variables |-> <<>>, linear_constraints |-> <<>>,
     quadratic_constraints |-> <<>>, objective |-> DefaultObjective]

VarNames(qp) == {qp.variables[i].name : i \in DOMAIN qp.variables}
GetNumVars(qp) == Len(qp.variables)
GetVariable(qp, n) == qp.variables[CHOOSE i \in DOMAIN qp.variables : qp.variables[i].name = n]

\* registration of a variable: fails when the name is already in the model
AddVariable(qp, v) ==
    IF v.name \in VarNames(qp)
    THEN [status |-> "DuplicateVariableName", qp |-> qp]
    ELSE [status |-> "ok", qp |-> [qp EXCEPT !.variables = Append(@, v)]]

binary_var(qp, name) ==
    AddVariable(qp, [name |-> name, vartype |-> "BINARY",
                     lowerbound |-> Whole(0), upperbound |-> Whole(1)])
integer_var(qp, name, lb, ub) ==
    AddVariable(qp, [name |-> name, vartype |-> "INTEGER", lowerbound |-> lb, upperbound |-> ub])
continuous_var(qp, name, lb, ub) ==
    AddVariable(qp, [name |-> name, vartype |-> "CONTINUOUS", lowerbound |-> lb, upperbound |-> ub])

\* LinearExpression.to_dict(use_name=True): the non-zero coefficients by name.
\* Expressions are stored in this form.
LinToDict(linear) == linear

\* A numpy array: its number of dimensions and its data.  Iterating an array of
\* one dimension yields its floats; iterating an array of two dimensions yields
\* its rows, which are arrays.
\* LinearExpression.to_array() / .coefficients: one float per variable of the
\* expression's own model, in variable order
LinToArray(linear, qp) ==
    [ndim |-> 1,
     data |-> [i \in 1..Len(qp.variables) |->
        IF qp.variables[i].name \in DOMAIN linear THEN linear[qp.variables[i].name] ELSE 0]]

\* QuadraticExpression.to_array() / .coefficients: a two-dimensional array, one
\* row per variable
QuadToArray(quadratic, qp) ==
    [ndim |-> 2,
     data |-> [i \in 1..Len(qp.variables) |->
        [j \in 1..Len(qp.variables) |->
            LET k == <<qp.variables[i].name, qp.variables[j].name>>
            IN IF k \in DOMAIN quadratic THEN quadratic[k] ELSE 0]]]

\* a coefficient array handed to a model's constraint builder is read by
\* position against that model's variables
LinFromArray(arr, qp) ==
    LET idx == {i \in DOMAIN arr.data : arr.data[i] # 0}
    IN [n \in {qp.variables[i].name : i \in idx} |->
            arr.data[CHOOSE i \in idx : qp.variables[i].name = n]]

QuadFromArray(arr, qp) ==
    LET m == arr.data
        idx == {p \in (DOMAIN m) \X (DOMAIN m) : m[p[1]][p[2]] # 0}
    IN [k \in {<<qp.variables[p[1]].name, qp.variables[p[2]].name>> : p \in idx} |->
            LET p == CHOOSE p \in idx :
                        k = <<qp.variables[p[1]].name, qp.variables[p[2]].name>>
            IN m[p[1]][p[2]]]

\* LinearExpression.bounds: the sum of each term's interval
LinearBounds(linear, qp) ==
    LET lo == [n \in DOMAIN linear |->
                 Min({Mul(linear[n], GetVariable(qp, n).lowerbound),
                      Mul(linear[n], GetVariable(qp, n).upperbound)})]
        hi == [n \in DOMAIN linear |->
                 Max({Mul(linear[n], GetVariable(qp, n).lowerbound),
                      Mul(linear[n], GetVariable(qp, n).upperbound)})]
    IN [lowerbound |-> SumFn(lo, DOMAIN linear), upperbound |-> SumFn(hi, DOMAIN linear)]

\* the values a product x * y (or a square x * x) can take at the bounds
ProductCorners(x, y) ==
    IF x.name = y.name
    THEN (IF x.lowerbound * x.upperbound <= 0 THEN {0} ELSE {})
         \cup {Mul(x.lowerbound, x.lowerbound), Mul(x.upperbound, x.upperbound)}
    ELSE {Mul(x.lowerbound, y.lowerbound), Mul(x.lowerbound, y.upperbound),
          Mul(x.upperbound, y.lowerbound), Mul(x.upperbound, y.upperbound)}

\* QuadraticExpression.bounds: the sum of each term's interval
QuadraticBounds(quadratic, qp) ==
    LET corners(k) == {Mul(quadratic[k], c) :
                         c \in ProductCorners(GetVariable(qp, k[1]), GetVariable(qp, k[2]))}
        lo == [k \in DOMAIN quadratic |-> Min(corners(k))]
        hi == [k \in DOMAIN quadratic |-> Max(corners(k))]
    IN [lowerbound |-> SumFn(lo, DOMAIN quadratic), upperbound |-> SumFn(hi, DOMAIN quadratic)]

\* the coefficients given to a constraint builder: a name-keyed dict or an array
ResolveLinear(arg, qp) == IF arg.kind = "dict" THEN arg.d ELSE LinFromArray(arg.arr, qp)

\* QuadraticProgram.linear_constraint(linear, sense, rhs, name)
linear_constraint(qp, args) ==
    LET lin == ResolveLinear(args.linear, qp)
    IN IF ~(DOMAIN lin \subseteq VarNames(qp))
       THEN [status |-> "UndeclaredVariable", qp |-> qp]
       ELSE [status |-> "ok",
             qp |-> [qp EXCEPT !.linear_constraints =
                        Append(@, [name |-> args.name, linear |-> lin,
                                   sense |-> args.sense, rhs |-> args.rhs])]]

\* QuadraticProgram.quadratic_constraint(linear, quadratic, sense, rhs, name)
quadratic_constraint(qp, args) ==
    LET lin == ResolveLinear(args.linear, qp)
        quad == QuadFromArray(args.quadratic, qp)
    IN IF ~(DOMAIN lin \subseteq VarNames(qp))
       THEN [status |-> "UndeclaredVariable", qp |-> qp]
       ELSE [status |-> "ok",
             qp |-> [qp EXCEPT !.quadratic_constraints =
                        Append(@, [name |-> args.name, linear |-> lin, quadratic |-> quad,
                                   sense |-> args.sense, rhs |-> args.rhs])]]

\* QuadraticProgram.minimize / maximize
SetObjective(qp, obj) == [qp EXCEPT !.objective = obj]

---------------------------------------------------------------------------
(* InequalityToEquality *)

\* _delimiter; users are supposed not to use this character in variable names
_delimiter == "@"

Modes == {"integer", "continuous", "auto"}

\* _any_float(values): any(isinstance(v, float) and not v.is_integer() for v in
\* values).  The elements of a one-dimensional array are floats; the elements
\* of a two-dimensional array are its rows, which are not.
_any_float(values) ==
    \E i \in DOMAIN values.data : values.ndim = 1 /\ ~IsInteger(values.data[i])

\* a variable copy that passes the upper bound only: the lower bound of an
\* integer or continuous variable is left at its default, 0
CopyVariableUpperOnly(qp, x) ==
    CASE x.vartype = "BINARY" -> binary_var(qp, x.name)
      [] x.vartype = "INTEGER" -> integer_var(qp, x.name, Whole(0), x.upperbound)
      [] x.vartype = "CONTINUOUS" -> continuous_var(qp, x.name, Whole(0), x.upperbound)
      [] OTHER -> [status |-> "UnsupportedVariableType", qp |-> qp]

\* the variable-copy dispatch of convert
CopyVariable(qp, x) ==
    CASE x.vartype = "BINARY" -> binary_var(qp, x.name)
      [] x.vartype = "INTEGER" -> integer_var(qp, x.name, x.lowerbound, x.upperbound)
      [] x.vartype = "CONTINUOUS" -> continuous_var(qp, x.name, x.lowerbound, x.upperbound)
      [] OTHER -> [status |-> "UnsupportedVariableType", qp |-> qp]

\* for x in self._src.variables: ...
RECURSIVE CopyVariables(_, _, _)
CopyVariables(qp, variables, i) ==
    IF i > Len(variables) THEN [status |-> "ok", qp |-> qp]
    ELSE LET r == CopyVariable(qp, variables[i])
         IN IF r.status # "ok" THEN r ELSE CopyVariables(r.qp, variables, i + 1)

\* the mode check and resolution of the two _add_slack_var_* methods:
\* "error" stands for the error raised under mode "integer"
EffectiveMode(m, any_float) ==
    IF m = "integer" THEN (IF any_float THEN "error" ELSE "integer")
    ELSE IF m = "auto" THEN (IF any_float THEN "continuous" ELSE "integer")
    ELSE m

\* new_rhs: rounded to the nearest integer under the integer mode
NewRhs(m, sense, rhs) ==
    IF m = "integer"
    THEN (IF sense = "<=" THEN Floor(rhs) ELSE IF sense = ">=" THEN Ceil(rhs) ELSE rhs)
    ELSE rhs

\* a slack bound taken from the wrong end of the interval
SlackUpperBoundWrongEnd(sense, new_rhs, lhs_lb, lhs_ub) ==
    IF sense = "<=" THEN new_rhs - lhs_ub
    ELSE IF sense = ">=" THEN lhs_lb - new_rhs
    ELSE 0

\* var_ub
SlackUpperBound(sense, new_rhs, lhs_lb, lhs_ub) ==
    IF sense = "<=" THEN new_rhs - lhs_lb
    ELSE IF sense = ">=" THEN lhs_ub - new_rhs
    ELSE 0

\* sign
SlackSign(sense, var_ub) ==
    IF sense = "<=" /\ var_ub > 0 THEN 1
    ELSE IF sense = ">=" /\ var_ub > 0 THEN -1
    ELSE 0

\* a slack variable also for a bound of exactly 0
NeedsSlackOrZero(var_ub) == var_ub >= 0

\* if var_ub > 0: add a slack variable
NeedsSlack(var_ub) == var_ub > 0

\* slack_name
SlackName(name, m) ==
    name \o _delimiter \o (IF m = "integer" THEN "int" ELSE "continuous") \o "_slack"

\* the sense of the source constraint kept
NewSenseKept(sense) == sense

\* the sense of the constraint the two _add_slack_var_* methods return
NewSense(sense) == "=="

\* the tuple an _add_slack_var_* method returns, with the model it leaves
SlackReturn(status, qp, new_linear, sense, new_rhs, name) ==
    [status |-> status, qp |-> qp, linear |-> [kind |-> "dict", d |-> new_linear],
     sense |-> NewSense(sense), rhs |-> new_rhs, name |-> name]

\* new_linear[slack_name] = sign, once the slack variable is registered
\* (added is the outcome of the registration)
WithSlackTerm(added, constraint, slack_name, sign, new_rhs) ==
    IF added.status # "ok"
    THEN SlackReturn(added.status, added.qp, LinToDict(constraint.linear),
                     constraint.sense, new_rhs, constraint.name)
    ELSE SlackReturn("ok", added.qp,
                     (slack_name :> Whole(sign)) @@ LinToDict(constraint.linear),
                     constraint.sense, new_rhs, constraint.name)

\* if var_ub > 0: register the slack variable in qp (self._dst)
AddSlackVariable(qp, m, constraint, var_ub, new_rhs) ==
    IF ~NeedsSlack(var_ub)
    THEN SlackReturn("ok", qp, LinToDict(constraint.linear),
                     constraint.sense, new_rhs, constraint.name)
    ELSE WithSlackTerm(
             IF m = "integer"
             THEN integer_var(qp, SlackName(constraint.name, m), Whole(0), var_ub)
             ELSE continuous_var(qp, SlackName(constraint.name, m), Whole(0), var_ub),
             constraint, SlackName(constraint.name, m),
             SlackSign(constraint.sense, var_ub), new_rhs)

\* var_ub from new_rhs and the bounds of the left-hand side
WithNewRhs(qp, m, constraint, new_rhs, lhs_lb, lhs_ub) ==
    AddSlackVariable(qp, m, constraint,
                     SlackUpperBound(constraint.sense, new_rhs, lhs_lb, lhs_ub), new_rhs)

\* The part the two _add_slack_var_* methods share, once the mode m is resolved
AddSlack(qp, m, constraint, lhs_lb, lhs_ub) ==
    IF m = "error"
    THEN [status |-> "FloatCoefficients", qp |-> qp]
    ELSE WithNewRhs(qp, m, constraint,
                    NewRhs(m, constraint.sense, constraint.rhs), lhs_lb, lhs_ub)

\* the sum of the linear and the quadratic interval
AddBounds(a, b) ==
    [lowerbound |-> a.lowerbound + b.lowerbound, upperbound |-> a.upperbound + b.upperbound]

AddSlackWithin(qp, m, constraint, bounds) ==
    AddSlack(qp, m, constraint, bounds.lowerbound, bounds.upperbound)

\* _add_slack_var_linear_constraint(constraint); s is self._src, qp is self._dst
_add_slack_var_linear_constraint(qp, s, configured, constraint) ==
    AddSlackWithin(qp,
                   EffectiveMode(configured, _any_float(LinToArray(constraint.linear, s))),
                   constraint,
                   LinearBounds(constraint.linear, s))

\* _add_slack_var_quadratic_constraint(constraint)
_add_slack_var_quadratic_constraint(qp, s, configured, constraint) ==
    AddSlackWithin(qp,
                   EffectiveMode(configured,
                                 _any_float(LinToArray(constraint.linear, s))
                                 \/ _any_float(QuadToArray(constraint.quadratic, s))),
                   constraint,
                   AddBounds(LinearBounds(constraint.linear, s),
                             QuadraticBounds(constraint.quadratic, s)))

\* new_linear_constraints.append(...) of an equality constraint
LinearCopied(c, s) ==
    [linear |-> [kind |-> "array", arr |-> LinToArray(c.linear, s)],
     sense |-> c.sense, rhs |-> c.rhs, name |-> c.name]

\* new_linear_constraints.append(self._add_slack_var_linear_constraint(...))
LinearRewritten(r) ==
    [linear |-> r.linear, sense |-> r.sense, rhs |-> r.rhs, name |-> r.name]

\* one constraint of the loop over self._src.linear_constraints: the status,
\* the model and the entry appended to new_linear_constraints
LinearStep(qp, s, configured, c) ==
    IF c.sense = "==" THEN [status |-> "ok", qp |-> qp, entry |-> LinearCopied(c, s)]
    ELSE IF c.sense \in {"<=", ">="}
    THEN LET r == _add_slack_var_linear_constraint(qp, s, configured, c)
         IN [status |-> r.status, qp |-> r.qp,
             entry |-> IF r.status = "ok" THEN LinearRewritten(r) ELSE <<>>]
    ELSE [status |-> "UnsupportedSense", qp |-> qp, entry |-> <<>>]

QuadraticCopied(c, s) ==
    [linear |-> [kind |-> "array", arr |-> LinToArray(c.linear, s)],
     quadratic |-> QuadToArray(c.quadratic, s),
     sense |-> c.sense, rhs |-> c.rhs, name |-> c.name]

QuadraticRewritten(r, c, s) ==
    [linear |-> r.linear, quadratic |-> QuadToArray(c.quadratic, s),
     sense |-> r.sense, rhs |-> r.rhs, name |-> r.name]

\* one constraint of the loop over self._src.quadratic_constraints
QuadraticStep(qp, s, configured, c) ==
    IF c.sense = "==" THEN [status |-> "ok", qp |-> qp, entry |-> QuadraticCopied(c, s)]
    ELSE IF c.sense \in {"<=", ">="}
    THEN LET r == _add_slack_var_quadratic_constraint(qp, s, configured, c)
         IN [status |-> r.status, qp |-> r.qp,
             entry |-> IF r.status = "ok" THEN QuadraticRewritten(r, c, s) ELSE <<>>]
    ELSE [status |-> "UnsupportedSense", qp |-> qp, entry |-> <<>>]

\* The two loops over the source constraints; acc is the state they run in:
\* [status, qp (self._dst), new (the list of new constraints)].  An error ends
\* the loop where it is raised.
RECURSIVE LinearLoop(_, _, _, _)
LinearLoop(acc, s, configured, i) ==
    IF acc.status # "ok" \/ i > Len(s.linear_constraints) THEN acc
    ELSE LET r == LinearStep(acc.qp, s, configured, s.linear_constraints[i])
         IN LinearLoop([status |-> r.status, qp |-> r.qp,
                        new |-> IF r.status = "ok" THEN Append(acc.new, r.entry) ELSE acc.new],
                       s, configured, i + 1)

RECURSIVE QuadraticLoop(_, _, _, _)
QuadraticLoop(acc, s, configured, i) ==
    IF acc.status # "ok" \/ i > Len(s.quadratic_constraints) THEN acc
    ELSE LET r == QuadraticStep(acc.qp, s, configured, s.quadratic_constraints[i])
         IN QuadraticLoop([status |-> r.status, qp |-> r.qp,
                           new |-> IF r.status = "ok" THEN Append(acc.new, r.entry) ELSE acc.new],
                          s, configured, i + 1)

\* for lin_const_args in new_linear_constraints: self._dst.linear_constraint(...)
RECURSIVE AddLinearConstraints(_, _, _)
AddLinearConstraints(acc, new, i) ==
    IF acc.status # "ok" \/ i > Len(new) THEN acc
    ELSE AddLinearConstraints(linear_constraint(acc.qp, new[i]), new, i + 1)

\* for quad_const_args in new_quadratic_constraints: ...
RECURSIVE AddQuadraticConstraints(_, _, _)
AddQuadraticConstraints(acc, new, i) ==
    IF acc.status # "ok" \/ i > Len(new) THEN acc
    ELSE AddQuadraticConstraints(quadratic_constraint(acc.qp, new[i]), new, i + 1)

\* copy.deepcopy(problem)
DeepCopy(p) == p

\* what a convert call leaves: its status ("ok" when it returns, otherwise the
\* error it raises) and the values of self._src and self._dst
Left(status, s, d) == [status |-> status, src |-> s, dst |-> d]

\* convert, from "Copy the objective function" on
CopyObjectiveAndConstraints(s, l, q) ==
    IF q.status # "ok" THEN Left(q.status, s, q.qp)
    ELSE LET a == AddQuadraticConstraints(
                      AddLinearConstraints(
                          [status |-> "ok", qp |-> SetObjective(q.qp, s.objective)],
                          l.new, 1),
                      q.new, 1)
         IN Left(a.status, s, a.qp)

\* convert, from "Add slack variables to quadratic constraints" on
RewriteQuadratic(s, configured, l) ==
    IF l.status # "ok" THEN Left(l.status, s, l.qp)
    ELSE CopyObjectiveAndConstraints(s, l,
             QuadraticLoop([status |-> "ok", qp |-> l.qp, new |-> <<>>], s, configured, 1))

\* convert, from "Add slack variables to linear constraints" on
RewriteLinear(s, configured, v) ==
    IF v.status # "ok" THEN Left(v.status, s, v.qp)
    ELSE RewriteQuadratic(s, configured,
             LinearLoop([status |-> "ok", qp |-> v.qp, new |-> <<>>], s, configured, 1))

\* convert(problem) under the configured mode
ConvertResult(configured, p) ==
    IF configured \notin Modes
    THEN Left("UnsupportedMode", DeepCopy(p), QuadraticProgram(p.name))
    ELSE RewriteLinear(DeepCopy(p), configured,
                       CopyVariables(QuadraticProgram(p.name), DeepCopy(p).variables, 1))

\* names = [var.name for var in self._dst.variables]
DstNames(d) == [i \in DOMAIN d.variables |-> d.variables[i].name]

\* a lookup that counts positions from the end of x
SolFromEnd(names, x) ==
    [n \in Range(names) |-> x[Len(x) + 1 - Max({i \in DOMAIN names : names[i] = n})]]

\* sol = {name: x[i] for i, name in enumerate(names)}: a later entry of the same
\* name replaces an earlier one
Sol(names, x) ==
    [n \in Range(names) |-> x[Max({i \in DOMAIN names : names[i] = n})]]

\* interpret(x): the status and the vector returned
InterpretResult(s, d, x) ==
    IF IsNone(d) \/ IsNone(s) THEN [status |-> "ValueError", value |-> <<>>]
    ELSE LET names == DstNames(d)
         IN IF Len(x) < Len(names) THEN [status |-> "IndexError", value |-> <<>>]
            ELSE IF \E i \in DOMAIN s.variables : s.variables[i].name \notin Range(names)
            THEN [status |-> "KeyError", value |-> <<>>]
            ELSE [status |-> "ok",
                  value |-> [i \in 1..GetNumVars(s) |-> Sol(names, x)[s.variables[i].name]]]

---------------------------------------------------------------------------
(* The input models *)

Var(name, vartype, lb, ub) ==
    [name |-> name, vartype |-> vartype, lowerbound |-> Whole(lb), upperbound |-> Whole(ub)]

\* kind and bounds of a source variable
Shapes ==
    {<<"BINARY", 0, 1>>, <<"INTEGER", 0, MaxBound>>, <<"INTEGER", -1, MaxBound>>,
     <<"CONTINUOUS", 0, MaxBound>>, <<"CONTINUOUS", -1, MaxBound>>}

Shaped(name, sh) == Var(name, sh[1], sh[2], sh[3])

\* the dict of the non-zero entries of f
Dict(f) == [n \in {k \in DOMAIN f : f[k] # 0} |-> f[n]]

\* the linear expressions over the variables named in names, coefficients in coefs
LinearDicts(names, coefs) == {Dict(f) : f \in [names -> coefs]}

Objective(variables) ==
    [sense |-> IF Len(variables) = 1 THEN "maximize" ELSE "minimize",
     constant |-> 0,
     linear |-> IF Len(variables) = 0 THEN EmptyDict ELSE (variables[1].name :> Whole(1)),
     quadratic |-> EmptyDict]

Model(variables, lin, quad) ==
    [name |-> "qp", variables |-> variables, linear_constraints |-> lin,
     quadratic_constraints |-> quad, objective |-> Objective(variables)]

Senses == {"<=", ">=", "=="}
\* -1, 0, 1 / Scale, 1
Coefs == {-Scale, 0, 1, Scale}
Rhss == (-Scale) .. MaxRhs

OnceVarLists ==
    {<<Shaped("x", a)>> : a \in Shapes}
    \cup {<<Shaped("x", a), Shaped("y", b)>> : a \in Shapes, b \in Shapes}

NamesOf(variables) == {variables[i].name : i \in DOMAIN variables}

LinearConstraints(name, names, coefs, senses, rhss) ==
    {[name |-> name, linear |-> l, sense |-> s, rhs |-> r] :
        l \in LinearDicts(names, coefs), s \in senses, r \in rhss}

\* the quadratic expressions of one term: a square of the first variable or a
\* product of the first and the last
QuadraticDicts(variables, coefs) ==
    {(k :> c) : k \in {<<variables[1].name, variables[1].name>>,
                       <<variables[1].name, variables[Len(variables)].name>>},
                c \in coefs \ {0}}

QuadraticConstraints(name, variables, lincoefs, coefs, senses, rhss) ==
    {[name |-> name, linear |-> l, quadratic |-> q, sense |-> s, rhs |-> r] :
        l \in LinearDicts(NamesOf(variables), lincoefs),
        q \in QuadraticDicts(variables, coefs), s \in senses, r \in rhss}

\* the model is one of variables v and one linear constraint
OneLinear(p, v) ==
    \E c \in LinearConstraints("c0", NamesOf(v), Coefs, Senses, Rhss) :
        p = Model(v, <<c>>, <<>>)

\* the model is one of variables v and one quadratic constraint
OneQuadratic(p, v) ==
    \E q \in QuadraticConstraints("q0", v, {0, Scale}, Coefs, Senses, Rhss) :
        p = Model(v, <<>>, <<q>>)

\* the model is one of variables v, two linear constraints and a quadratic one
Several(p, v) ==
    \E c \in LinearConstraints("c0", NamesOf(v), {Scale}, Senses, {1, Scale}),
       d \in LinearConstraints("c1", {"x"}, {1}, {">=", "=="}, {0, 1}),
       q \in QuadraticConstraints("q0", v, {0}, {1, Scale}, {"<=", ">="}, {Scale}) :
        p = Model(v, <<c, d>>, <<q>>)

\* The models of a session.  Names are free: a variable may carry the name a
\* slack variable would get, and a quadratic constraint may carry the name of
\* a linear one (the two collections are named separately).
SessionVarLists ==
    {<<>>,
     <<Var("x", "BINARY", 0, 1)>>,
     <<Var("x", "CONTINUOUS", -1, MaxBound)>>,
     <<Var("x", "BINARY", 0, 1), Var("y", "INTEGER", -1, MaxBound)>>,
     <<Var("x", "CONTINUOUS", 0, MaxBound), Var("y", "BINARY", 0, 1)>>,
     <<Var("x", "INTEGER", 0, MaxBound), Var("c" \o _delimiter \o "int_slack", "INTEGER", 0, 1)>>,
     <<Var("c" \o _delimiter \o "continuous_slack", "CONTINUOUS", 0, 1),
       Var("x", "INTEGER", 0, MaxBound)>>}

SessionLinear(v) ==
    {<<>>}
    \cup (IF Len(v) = 0 THEN {}
          ELSE {<<[name |-> "c", linear |-> ("x" :> t[1]), sense |-> t[2], rhs |-> t[3]]>> :
                  t \in {<<Scale, "<=", Scale>>, <<Scale, ">=", 1>>, <<1, "<=", Scale>>,
                         <<Scale, "==", Scale>>}})

SessionQuadratic(v) ==
    {<<>>}
    \cup (IF Len(v) = 0 THEN {}
          ELSE {<<[name |-> n, linear |-> EmptyDict, quadratic |-> (<<"x", "x">> :> Scale),
                   sense |-> "<=", rhs |-> Scale]>> : n \in {"c", "q"}})

SessionProblems ==
    UNION {{Model(v, l, q) : l \in SessionLinear(v), q \in SessionQuadratic(v)} :
           v \in SessionVarLists}

\* solution vectors of n entries, pairwise different
XVectors(n) == {[i \in 1..n |-> Whole(b + i)] : b \in 0..MaxBase}

---------------------------------------------------------------------------
(* The converter *)

Result(op, status, value) == [op |-> op, status |-> status, value |-> value]

\* __init__(mode): any string is accepted
Init ==
    /\ _mode \in Modes \cup {"bogus"}
    /\ _src = NoneQP
    /\ _dst = NoneQP
    /\ problem = NoneQP
    /\ ret = Result("init", "ok", <<>>)
    /\ everOk = FALSE
    /\ lastOk = FALSE

\* convert(p)
convert(p) ==
    LET r == ConvertResult(_mode, p)
    IN /\ _src' = r.src
       /\ _dst' = r.dst
       /\ problem' = p
       /\ ret' = Result("convert", r.status, <<>>)
       /\ everOk' = (everOk \/ r.status = "ok")
       /\ lastOk' = (r.status = "ok")
       /\ UNCHANGED _mode

\* interpret(x), x sized to the destination model
interpret ==
    \E x \in XVectors(IF IsNone(_dst) THEN 0 ELSE GetNumVars(_dst)) :
        LET r == InterpretResult(_src, _dst, x)
        IN /\ ret' = Result("interpret", r.status, [given |-> x, out |-> r.value])
           /\ UNCHANGED <<_mode, _src, _dst, problem, everOk, lastOk>>

\* the mode setter
mode_setter ==
    \E m \in Modes \cup {"bogus"} :
        /\ _mode' = m
        /\ ret' = Result("set_mode", "ok", <<>>)
        /\ UNCHANGED <<_src, _dst, problem, everOk, lastOk>>

ConvertAny == \E p \in SessionProblems : convert(p)

Next == ConvertAny \/ interpret \/ mode_setter

\* a converter in use: any sequence of convert, interpret and mode changes
Spec == Init /\ [][Next]_vars

\* one conversion of one model
InitOnce ==
    /\ _mode \in Modes
    /\ _src = NoneQP
    /\ _dst = NoneQP
    /\ \E v \in OnceVarLists :
          OneLinear(problem, v) \/ OneQuadratic(problem, v) \/ Several(problem, v)
    /\ ret = Result("init", "ok", <<>>)
    /\ everOk = FALSE
    /\ lastOk = FALSE

ConvertOnce == ret.op = "init" /\ convert(problem)

SpecOnce == InitOnce /\ [][ConvertOnce]_vars

---------------------------------------------------------------------------
(* What the properties below speak of *)

Returned == ret.op = "convert" /\ ret.status = "ok"

\* the constraints of a model, linear ones first, each with its kind
Constraints(qp) ==
    [i \in 1..(Len(qp.linear_constraints) + Len(qp.quadratic_constraints)) |->
        IF i <= Len(qp.linear_constraints)
        THEN [kind |-> "linear", c |-> qp.linear_constraints[i]]
        ELSE [kind |-> "quadratic",
              c |-> qp.quadratic_constraints[i - Len(qp.linear_constraints)]]]

IsInequality(c) == c.sense \in {"<=", ">="}

\* the interval of the left-hand side of a source constraint
LhsBounds(k, qp) ==
    IF k.kind = "linear" THEN LinearBounds(k.c.linear, qp)
    ELSE AddBounds(LinearBounds(k.c.linear, qp), QuadraticBounds(k.c.quadratic, qp))

\* the slack upper bound computed for source constraint k from the adjusted
\* right-hand side rhs
ComputedUb(k, qp, rhs) ==
    IF k.c.sense = "<=" THEN rhs - LhsBounds(k, qp).lowerbound
    ELSE LhsBounds(k, qp).upperbound - rhs

\* the terms of a destination constraint over variables the source does not have
SlackTerms(d) == DOMAIN d.linear \ VarNames(problem)

\* the terms of a destination constraint over the source variables
SourceTerms(d) == [n \in DOMAIN d.linear \cap VarNames(problem) |-> d.linear[n]]

\* some coefficient of the constraint is not integral
HasFloatCoefficient(k) ==
    \/ \E n \in DOMAIN k.c.linear : ~IsInteger(k.c.linear[n])
    \/ k.kind = "quadratic" /\ \E n \in DOMAIN k.c.quadratic : ~IsInteger(k.c.quadratic[n])

\* Values of variables are counted in units of 1 / Scale^3, in which every
\* term of a constraint evaluated on the grids below is a whole number.
Fine == Scale * Scale * Scale

\* the values a variable may take: all integers within its bounds for a binary
\* or integer variable, the multiples of step (in fine units) for a continuous one
Values(v, step) ==
    {x \in (v.lowerbound * Scale * Scale) .. (v.upperbound * Scale * Scale) :
        x % (IF v.vartype = "CONTINUOUS" THEN step ELSE Fine) = 0}

\* the value of the left-hand side of a constraint under assignment a
Evaluate(k, a) ==
    LET lin == [n \in DOMAIN k.c.linear |-> (k.c.linear[n] * a[n]) \div Scale]
        quad == IF k.kind = "linear" THEN EmptyDict
                ELSE [n \in DOMAIN k.c.quadratic |->
                        (k.c.quadratic[n] * a[n[1]] * a[n[2]]) \div (Fine * Scale)]
    IN SumFn(lin, DOMAIN lin) + SumFn(quad, DOMAIN quad)

Satisfies(k, a) ==
    LET lhs == Evaluate(k, a)
        rhs == k.c.rhs * Scale * Scale
    IN CASE k.c.sense = "<=" -> lhs <= rhs
         [] k.c.sense = ">=" -> lhs >= rhs
         [] OTHER -> lhs = rhs

Feasible(qp, a) == \A i \in DOMAIN Constraints(qp) : Satisfies(Constraints(qp)[i], a)

\* the assignments to the variables named in names, continuous ones on the
\* grid of the given step
Assignments(qp, names, step) ==
    LET all == UNION {Values(GetVariable(qp, n), step) : n \in names}
    IN {a \in [names -> all] : \A n \in names : a[n] \in Values(GetVariable(qp, n), step)}

---------------------------------------------------------------------------
(* Properties *)

\* C1: when convert returns, every linear and every quadratic constraint of
\* the returned model has sense "==", and the returned model has exactly one
\* constraint, of the same name, for each constraint of the input model.
EqualityOnly ==
    Returned =>
        /\ Len(_dst.linear_constraints) = Len(problem.linear_constraints)
        /\ Len(_dst.quadratic_constraints) = Len(problem.quadratic_constraints)
        /\ \A i \in DOMAIN Constraints(_dst) :
              /\ Constraints(_dst)[i].c.sense = "=="
              /\ Constraints(_dst)[i].c.name = Constraints(problem)[i].c.name

\* C1: a returned model whose source has a "<=" and a ">=" constraint
EqualityOnlyWitness ==
    /\ Returned
    /\ \E i \in DOMAIN problem.linear_constraints : problem.linear_constraints[i].sense = "<="
    /\ \E i \in DOMAIN problem.quadratic_constraints :
          problem.quadratic_constraints[i].sense = ">="

\* C2: an assignment to the source variables satisfies the source constraints
\* if and only if slack values within the slack bounds, of the slack kinds,
\* extend it to an assignment satisfying the converted constraints.
SemanticEquivalence ==
    Returned =>
        \A a \in Assignments(problem, VarNames(problem), Scale * Scale) :
            Feasible(problem, a) <=>
                \E s \in Assignments(_dst, VarNames(_dst) \ VarNames(problem), 1) :
                    Feasible(_dst, s @@ a)

\* C7: under "integer" convert fails whenever an inequality constraint has a
\* non-integral linear or quadratic coefficient; under "auto" a slack is
\* continuous iff its constraint has one; under "continuous" every slack is
\* continuous; "auto" and "continuous" never fail for coefficient integrality.
ModeResolution ==
    ret.op = "convert" =>
        LET ks == Constraints(problem)
            float == {i \in DOMAIN ks : IsInequality(ks[i].c) /\ HasFloatCoefficient(ks[i])}
        IN /\ (_mode = "integer" /\ float # {}) => ret.status = "FloatCoefficients"
           /\ _mode # "integer" => ret.status # "FloatCoefficients"
           /\ (Returned /\ _mode # "integer") =>
                 \A i \in DOMAIN ks : \A t \in SlackTerms(Constraints(_dst)[i].c) :
                     (GetVariable(_dst, t).vartype = "CONTINUOUS")
                         <=> (_mode = "continuous" \/ i \in float)

PositiveUb ==
    {i \in DOMAIN Constraints(problem) :
        /\ IsInequality(Constraints(problem)[i].c)
        /\ ComputedUb(Constraints(problem)[i], problem, Constraints(_dst)[i].c.rhs) > 0}

\* C9: a slack variable is added for an inequality constraint iff its computed
\* slack upper bound is > 0; otherwise the constraint keeps exactly its terms,
\* at the original or the rounded right-hand side;
\* equality constraints never add a variable; the destination has as many
\* variables as the source plus the inequality constraints of positive bound.
NoSlackWhenRedundant ==
    Returned =>
        /\ \A i \in DOMAIN Constraints(problem) :
              LET k == Constraints(problem)[i]
                  d == Constraints(_dst)[i].c
              IN /\ SourceTerms(d) = k.c.linear
                 /\ k.kind = "quadratic" => d.quadratic = k.c.quadratic
                 /\ SlackTerms(d) \subseteq VarNames(_dst)
                 /\ Cardinality(SlackTerms(d)) = IF i \in PositiveUb THEN 1 ELSE 0
                 /\ d.rhs \in {k.c.rhs, NewRhs("integer", k.c.sense, k.c.rhs)}
                 /\ ~IsInequality(k.c) => d.rhs = k.c.rhs
        /\ GetNumVars(_dst) = GetNumVars(problem) + Cardinality(PositiveUb)

\* C9: a returned model with an inequality constraint that got no slack
\* variable and one that got one
NoSlackWhenRedundantWitness ==
    /\ Returned
    /\ PositiveUb # {}
    /\ \E i \in DOMAIN Constraints(problem) :
          IsInequality(Constraints(problem)[i].c) /\ i \notin PositiveUb

\* C3: when convert has returned, the source variables are at destination
\* positions 1..n in source order with the same name, kind and bounds, and
\* every further destination variable is none of them.
VariablePreservation ==
    lastOk =>
        /\ GetNumVars(_dst) >= GetNumVars(problem)
        /\ \A i \in DOMAIN problem.variables : _dst.variables[i] = problem.variables[i]
        /\ \A j \in DOMAIN _dst.variables :
              j > GetNumVars(problem) => _dst.variables[j].name \notin VarNames(problem)

\* C3: a conversion of a continuous and a binary variable that added a slack
VariablePreservationWitness ==
    /\ lastOk
    /\ GetNumVars(_dst) > GetNumVars(problem)
    /\ {"CONTINUOUS", "BINARY"} \subseteq
          {problem.variables[i].vartype : i \in DOMAIN problem.variables}

\* the position of the destination variable of the given name
PositionIn(d, n) == CHOOSE j \in DOMAIN d.variables : d.variables[j].name = n

\* C4: after a successful convert, interpret(x) has one entry per source
\* variable; entry i is the entry of x at the position of the destination
\* variable named like source variable i; entries at slack positions are not
\* in the output.
InterpretRoundTrip ==
    (ret.op = "interpret" /\ lastOk) =>
        /\ ret.status = "ok"
        /\ Len(ret.value.out) = GetNumVars(problem)
        /\ \A i \in DOMAIN problem.variables :
              ret.value.out[i] = ret.value.given[PositionIn(_dst, problem.variables[i].name)]
        /\ \A j \in DOMAIN _dst.variables :
              _dst.variables[j].name \notin VarNames(problem)
                  => ret.value.given[j] \notin Range(ret.value.out)

\* C4: an interpretation against a conversion of two variables that added slacks
InterpretRoundTripWitness ==
    /\ ret.op = "interpret"
    /\ lastOk
    /\ GetNumVars(problem) = 2
    /\ GetNumVars(_dst) > 3

\* C5: a convert call that raises leaves self._src and self._dst as they were.
FailureAtomicity ==
    [][(ret'.op = "convert" /\ ret'.status # "ok") => (_src' = _src /\ _dst' = _dst)]_vars

\* C6: interpret before any successful convert fails with the
\* uninitialized-state error and returns no vector.
InterpretBeforeConvertFails ==
    (ret.op = "interpret" /\ ~everOk) => ret.status = "ValueError"

\* C10: under "auto" and "continuous", registering a slack variable never
\* fails with a duplicate name.
SlackNamesUnique ==
    (ret.op = "convert" /\ _mode \in {"auto", "continuous"})
        => ret.status # "DuplicateVariableName"

=============================================================================
